---- MODULE Spec2Model ----
(***************************************************************************)
(* CheckStructure (src/CheckStructure.py): an MDAnalysis AnalysisBase      *)
(* subclass that scans a trajectory frame by frame for atomic overlaps and *)
(* over-long bonds and collects the offending frames in results.badframes. *)
(*                                                                         *)
(* Geometry is one-dimensional with integer coordinates: a distance is an  *)
(* absolute difference, wrapped by the minimum-image convention when the   *)
(* frame carries a periodic box.  Python's None is the empty option {},    *)
(* a present value x is {x}.                                               *)
(***************************************************************************)
EXTENDS Integers, Sequences, FiniteSets

\* ------------------------------------------------------------- bounds
\* Longest trajectory (number of frames).
MaxFrames == 2
\* Number of run() calls made on one CheckStructure instance.
MaxRuns == 2

\* ------------------------------------------------------- input values
\* Stable atom identifiers (Atom.ix) of the universe.
Atoms == {0, 1, 2}
\* Coordinates an atom can take in a frame.
Coords == {0, 1, 2, 3}
\* Periodic box lengths a frame can carry; 0 is "no periodic box".
Boxes == {0, 4}
\* Cutoff values offered to the constructor (besides None): the overlap
\* cutoff is the smaller one, as with the defaults 0.8 and 2.5.
AtomCutValues == {1}
BondCutValues == {2}
\* Thresholds of the updating selections "atoms at or beyond a coordinate".
SelectionBounds == {3}

\* ------------------------------------------------------------ options
None == {}
Some(x) == {x}
The(o) == CHOOSE x \in o : TRUE

\* ------------------------------------------------------------- inputs
\* One frame of the trajectory: atom positions and box dimensions.
Timesteps == [positions : [Atoms -> Coords], dimensions : Boxes]

RECURSIVE SeqsUpTo(_, _)
SeqsUpTo(S, n) ==
    IF n = 0 THEN {<<>>}
    ELSE LET shorter == SeqsUpTo(S, n - 1)
         IN  shorter \cup {Append(s, x) : s \in {t \in shorter : Len(t) = n - 1}, x \in S}

Range(s) == {s[i] : i \in 1..Len(s)}
Injective(s) == \A i, j \in 1..Len(s) : s[i] = s[j] => i = j

\* A bond joins two different atoms and is stored with the lower ix first.
BondPairs == {<<a, b>> : a \in Atoms, b \in Atoms} \ {<<a, b>> \in Atoms \X Atoms : a >= b}
BondLists == {s \in SeqsUpTo(BondPairs, 2) : Injective(s)}

\* Frames without a periodic box in which atom 0 sits at the origin, atom 2
\* three units away and atom 1 at or beyond the middle.
CoarseTimesteps ==
    {ts \in Timesteps : /\ ts.dimensions = 0
                        /\ ts.positions[0] = 0
                        /\ ts.positions[1] >= 2
                        /\ ts.positions[2] = 3}

\* Trajectories: every single frame, and every sequence of one to MaxFrames
\* coarse frames.
Trajectories ==
    {<<ts>> : ts \in Timesteps} \cup (SeqsUpTo(CoarseTimesteps, MaxFrames) \ {<<>>})

RECURSIVE SortedSeq(_)
SortedSeq(S) ==
    IF S = {} THEN <<>>
    ELSE LET m == CHOOSE x \in S : \A y \in S : x <= y
         IN  <<m>> \o SortedSeq(S \ {m})

\* The atom groups the constructor is given.  An AtomGroup is any sequence
\* of atoms of the universe: empty, in any order, an atom more than once.
\* An UpdatingAtomGroup holds, in each frame, the atoms its selection
\* matches in that frame, in ix order.
AtomGroups ==
    {[updating |-> FALSE, atoms |-> g, beyond |-> 0] :
        g \in SeqsUpTo(Atoms, Cardinality(Atoms))}
    \cup {[updating |-> TRUE, atoms |-> <<>>, beyond |-> c] : c \in SelectionBounds}

AtomCutoffs == {None} \cup {Some(c) : c \in AtomCutValues}
BondCutoffs == {None} \cup {Some(c) : c \in BondCutValues}

VARIABLES
    universe,     \* [trajectory, bonds]: bonds is None when the topology has no bonds
    pc,           \* "new", "failed", "constructed", "running", "crashed", "done"
    ag,           \* self.ag
    atomcut,      \* self.atomcut (option)
    bondcut,      \* self.bondcut (option)
    start,        \* run(start=...): trajectory position of the first frame analysed
    frame_index,  \* self._frame_index of the frame to process next
    badframes,    \* self.results.badframes
    warned,       \* frame indices named by the warnings emitted, in order
    raised,       \* the exception that ended the last call, or "none"
    runs          \* run() calls so far

vars == <<universe, pc, ag, atomcut, bondcut, start, frame_index, badframes,
          warned, raised, runs>>

\* ----------------------------------------------------------- geometry
Abs(x) == IF x < 0 THEN -x ELSE x
Min(x, y) == IF x <= y THEN x ELSE y

\* Distance of two atoms under the frame's periodic box (minimum image).
BoxDistance(ts, a, b) ==
    LET d == Abs(ts.positions[a] - ts.positions[b])
    IN  IF ts.dimensions = 0 THEN d ELSE Min(d % ts.dimensions, ts.dimensions - (d % ts.dimensions))

\* Bond length: TopologyGroup.values() default, no periodic wrapping.
BondLength(ts, bond) == Abs(ts.positions[bond[1]] - ts.positions[bond[2]])

\* ------------------------------------------------------- construction
\* __init__: hasattr(self.ag.universe.atoms, "bonds")
HasBonds == universe.bonds # None

\* Variant without the constructor's guard.
ConstructorRaisesNever(bc) == FALSE
\* __init__ raises NoDataError: bond checking requested on a bondless universe.
ConstructorRaises(bc) == bc # None /\ ~HasBonds

\* CheckStructure(atomgroup, atomcut, bondcut)
Construct(g, ac, bc) ==
    /\ pc = "new"
    /\ ag' = g
    /\ atomcut' = ac
    /\ IF ConstructorRaises(bc)
       THEN /\ pc' = "failed"
            /\ raised' = "NoDataError"
            /\ UNCHANGED bondcut
       ELSE /\ pc' = "constructed"
            /\ bondcut' = bc
            /\ UNCHANGED raised
    /\ UNCHANGED <<universe, start, frame_index, badframes, warned, runs>>

\* ------------------------------------------------------------ per frame
NFrames == Len(universe.trajectory)
\* The frame the trajectory is positioned at when _single_frame runs: the
\* frame_index-th frame of the frames run() analyses.
CurrentTs == universe.trajectory[start + frame_index + 1]

\* self.ag.atoms in a frame: the ix of the members, in group order.
Members(ts) ==
    IF ag.updating
    THEN SortedSeq({a \in Atoms : ts.positions[a] >= ag.beyond})
    ELSE ag.atoms

\* All pairs of group positions p < q (1-based), in lexicographic order.
RECURSIVE PositionPairs(_, _, _)
PositionPairs(p, q, n) ==
    IF p >= n THEN <<>>
    ELSE IF q > n THEN PositionPairs(p + 1, p + 2, n)
    ELSE <<<<p, q>>>> \o PositionPairs(p, q + 1, n)

\* self_capped_distance(positions, max_cutoff, box): the pairs of positions
\* p < q of the group whose distance under the box is at most the cutoff.
SelfCappedDistance(ts, cut) ==
    SelectSeq(PositionPairs(1, 2, Len(Members(ts))),
              LAMBDA pr : BoxDistance(ts, Members(ts)[pr[1]], Members(ts)[pr[2]]) <= cut)

\* self.ag.atoms[pair[k]].ix: the ix of the atom at a position of the group.
AtomIx(ts, p) == Members(ts)[p]

\* The overlap rows [ix1, ix2, distance] of a frame for a given cutoff.
OverlapRows(ts, cut) ==
    LET pairs == SelfCappedDistance(ts, cut)
    IN  [k \in 1..Len(pairs) |->
            <<AtomIx(ts, pairs[k][1]), AtomIx(ts, pairs[k][2]),
              BoxDistance(ts, Members(ts)[pairs[k][1]], Members(ts)[pairs[k][2]])>>]

\* Variant falling back to a cutoff of 1 when atomcut is None.
OverlapsDefaultCut(ts) ==
    LET rows == OverlapRows(ts, IF atomcut = None THEN 1 ELSE The(atomcut))
    IN  IF Len(rows) > 0 THEN Some(rows) ELSE None
\* The overlaps local after the atomcut block: None when the check is
\* disabled or finds no pair (pairs.size > 0 fails).
Overlaps(ts) ==
    IF atomcut = None THEN None
    ELSE LET rows == OverlapRows(ts, The(atomcut))
         IN  IF Len(rows) > 0 THEN Some(rows) ELSE None

\* self.ag.intra_bonds: the universe's bonds with both atoms in the group.
IntraBonds(ts) ==
    IF universe.bonds = None THEN <<>>
    ELSE SelectSeq(The(universe.bonds),
                   LAMBDA b : b[1] \in Range(Members(ts)) /\ b[2] \in Range(Members(ts)))

\* What self.ag.intra_bonds.values() can do in the try block.  With a bond
\* inside the group it returns the lengths.  Without one the outcome is the
\* library's: an empty array, the AttributeError the handler expects, or an
\* exception the handler does not catch.
LookupOutcomes(ts) ==
    IF IntraBonds(ts) # <<>> THEN {"values"}
    ELSE {"values", "AttributeError", "IndexError"}

\* Variant counting a bond of exactly the cutoff length as too long.
IsLongBondInclusive(len, cut) == len >= cut
\* np.where(values > self.bondcut)
IsLongBond(len, cut) == len > cut

\* The longbonds local after the bondcut block when the lookup returned:
\* rows [ix1, ix2, length] in bond-list order, None when bond_ids is empty.
LongBonds(ts) ==
    IF bondcut = None THEN None
    ELSE LET bonds == SelectSeq(IntraBonds(ts),
                                LAMBDA b : IsLongBond(BondLength(ts, b), The(bondcut)))
             rows == [k \in 1..Len(bonds) |->
                        <<bonds[k][1], bonds[k][2], BondLength(ts, bonds[k])>>]
         IN  IF Len(rows) > 0 THEN Some(rows) ELSE None

\* The condition under which the frame's record is appended.
ShouldAppend(overlaps, longbonds) == overlaps # None \/ longbonds # None

\* self._frame_index: the index stored in a record.
RecordFrameIndex == frame_index

\* Variant in which _prepare leaves the earlier records in place.
KeptBadframes == badframes
\* _prepare: the value results.badframes is set to.
PreparedBadframes == <<>>

\* run(start=s): the frames from position s on are set up, _frame_index
\* counts them from 0, and _prepare is called.
Prepare ==
    /\ pc \in {"constructed", "done", "crashed"}
    /\ runs < MaxRuns
    /\ runs' = runs + 1
    /\ \E s \in 0..(NFrames - 1) : start' = s
    /\ badframes' = PreparedBadframes
    /\ frame_index' = 0
    /\ pc' = "running"
    /\ raised' = "none"
    /\ UNCHANGED <<universe, ag, atomcut, bondcut, warned>>

\* _single_frame returns: the record is appended if there is one, and run()
\* goes on to the next frame or returns after the last.
FrameReturns(overlaps, longbonds) ==
    /\ badframes' =
         IF ShouldAppend(overlaps, longbonds)
         THEN Append(badframes, <<RecordFrameIndex, overlaps, longbonds>>)
         ELSE badframes
    /\ frame_index' = frame_index + 1
    /\ pc' = IF start + frame_index + 1 = NFrames THEN "done" ELSE "running"
    /\ UNCHANGED <<warned, raised>>

\* The bond lookup raises AttributeError: the handler warns, and the read of
\* the still unassigned local bond_ids (line 105) raises UnboundLocalError
\* out of _single_frame and run().
FrameWarnsAndRaises ==
    /\ warned' = Append(warned, frame_index)
    /\ pc' = "crashed"
    /\ raised' = "UnboundLocalError"
    /\ UNCHANGED <<frame_index, badframes>>

\* The bond lookup raises something the handler does not catch.
FrameLookupRaises ==
    /\ pc' = "crashed"
    /\ raised' = "IndexError"
    /\ UNCHANGED <<frame_index, badframes, warned>>

\* run(): one iteration of the frame loop, _single_frame included.
SingleFrame ==
    /\ pc = "running"
    /\ IF bondcut = None
       THEN FrameReturns(Overlaps(CurrentTs), None)
       ELSE \E outcome \in LookupOutcomes(CurrentTs) :
                CASE outcome = "values" ->
                        FrameReturns(Overlaps(CurrentTs), LongBonds(CurrentTs))
                  [] outcome = "AttributeError" -> FrameWarnsAndRaises
                  [] outcome = "IndexError" -> FrameLookupRaises
    /\ UNCHANGED <<universe, ag, atomcut, bondcut, start, runs>>

Init ==
    /\ universe \in [trajectory : Trajectories, bonds : {None} \cup {Some(b) : b \in BondLists}]
    /\ pc = "new"
    /\ ag = [updating |-> FALSE, atoms |-> <<>>, beyond |-> 0]
    /\ atomcut = None
    /\ bondcut = None
    /\ start = 0
    /\ frame_index = 0
    /\ badframes = <<>>
    /\ warned = <<>>
    /\ raised = "none"
    /\ runs = 0

Next ==
    \/ \E g \in AtomGroups, ac \in AtomCutoffs, bc \in BondCutoffs : Construct(g, ac, bc)
    \/ Prepare
    \/ SingleFrame

Spec == Init /\ [][Next]_vars

\* ------------------------------------------------------------- claims
\* What the claims speak of, stated over the inputs rather than through the
\* operators of the frame step.
Rows(o) == IF o = None THEN <<>> ELSE The(o)
\* The frame analysed as the i-th (0-based) of the current run.
FrameAt(i) == universe.trajectory[start + i + 1]
InRun(i) == i >= 0 /\ start + i < NFrames
GroupAtoms(ts) == Range(Members(ts))
Records == {badframes[k] : k \in 1..Len(badframes)}

\* Unordered pairs of distinct group atoms within the overlap cutoff.
ClosePairs(ts) ==
    IF atomcut = None THEN {}
    ELSE {pr \in SUBSET GroupAtoms(ts) :
            /\ Cardinality(pr) = 2
            /\ \A a, b \in pr : BoxDistance(ts, a, b) <= The(atomcut)}

\* Places in the universe's bond list of the bonds inside the group that are
\* longer than the bond cutoff.
OverLongBonds(ts) ==
    IF bondcut = None \/ universe.bonds = None THEN {}
    ELSE {k \in 1..Len(The(universe.bonds)) :
            LET b == The(universe.bonds)[k]
            IN  /\ b[1] \in GroupAtoms(ts)
                /\ b[2] \in GroupAtoms(ts)
                /\ BondLength(ts, b) > The(bondcut)}

HasViolation(ts) == ClosePairs(ts) # {} \/ OverLongBonds(ts) # {}

\* Frames of the current run _single_frame has been called for and has
\* either returned from or left with the missing-bonds warning.
ProcessedFrames ==
    IF pc \in {"running", "done"} THEN 0..(frame_index - 1)
    ELSE IF pc = "crashed" /\ raised = "UnboundLocalError" THEN 0..frame_index
    ELSE IF pc = "crashed" THEN 0..(frame_index - 1)
    ELSE {}

\* C1: construction with bond checking on a universe without bonds fails at
\* construction with NoDataError: no instance with bond checking exists on
\* such a universe, and after the failure nothing has run, nothing can run
\* and no record or warning exists.
C1_NoBondsFailsAtConstruction ==
    /\ (~HasBonds /\ pc \notin {"new", "failed"}) => bondcut = None
    /\ pc = "failed" =>
         /\ ~HasBonds
         /\ raised = "NoDataError"
         /\ runs = 0
         /\ frame_index = 0
         /\ badframes = <<>>
         /\ warned = <<>>
         /\ ~ENABLED Prepare
         /\ ~ENABLED SingleFrame

C1_Witness == pc = "failed" /\ ag.atoms # <<>>

\* C2: when the bond lookup of a frame raises AttributeError (the step that
\* emits the warning), processing the frame raises nothing: the warning names
\* the frame index, any record of the frame has a null bond field, and the
\* scan moves on to the next frame.
C2_MissingBondsWarnAndContinue ==
    [][(pc = "running" /\ Len(warned') > Len(warned))
        => /\ warned' = Append(warned, frame_index)
           /\ raised' = "none"
           /\ pc' \in {"running", "done"}
           /\ frame_index' = frame_index + 1
           /\ \A k \in (Len(badframes) + 1)..Len(badframes') : badframes'[k][3] = None]_vars

\* C3: every record has a non-null field, every non-null field is a non-empty
\* list, and the frame the record was appended for has an overlap (two
\* distinct atoms within atomcut) or an over-long bond.
C3_RecordsOnlyForViolations ==
    \A r \in Records :
        /\ r[2] # None \/ r[3] # None
        /\ r[2] # None => Len(The(r[2])) > 0
        /\ r[3] # None => Len(The(r[3])) > 0
        /\ InRun(r[1])
        /\ HasViolation(FrameAt(r[1]))

\* C4: a record is appended with the 0-based trajectory position of the frame
\* being processed, and the frame indices of the records are strictly
\* increasing.
C4_FrameIndexIsPosition ==
    /\ [](\A k \in 2..Len(badframes) : badframes[k - 1][1] < badframes[k][1])
    /\ [][Len(badframes') > Len(badframes)
          => /\ pc = "running"
             /\ Len(badframes') = Len(badframes) + 1
             /\ badframes'[Len(badframes')][1] = start + frame_index]_vars

\* C5: a disabled check contributes nothing: atomcut None gives a null overlap
\* field in every record, bondcut None a null bond field, both None no record.
C5_DisabledCheckIsNull ==
    /\ atomcut = None => \A r \in Records : r[2] = None
    /\ bondcut = None => \A r \in Records : r[3] = None
    /\ (atomcut = None /\ bondcut = None) => badframes = <<>>

\* A record from a run without overlap checking whose frame has two distinct
\* group atoms within the distance an overlap check would have used.
C5_Witness ==
    /\ pc = "done"
    /\ atomcut = None
    /\ bondcut # None
    /\ badframes # <<>>
    /\ \E pr \in SUBSET GroupAtoms(FrameAt(badframes[1][1])) :
         /\ Cardinality(pr) = 2
         /\ \A a, b \in pr : BoxDistance(FrameAt(badframes[1][1]), a, b) <= 1

\* C6: once the scan is over, every processed frame in which an enabled check
\* found a violation has exactly one record, which carries the frame's
\* overlaps and its over-long bonds, also when its bond check only produced
\* the missing-bonds warning.
C6_EveryViolationRecorded ==
    pc \in {"done", "crashed"} =>
        \A i \in ProcessedFrames :
            HasViolation(FrameAt(i)) =>
                /\ Cardinality({k \in 1..Len(badframes) : badframes[k][1] = i}) = 1
                /\ \A k \in 1..Len(badframes) :
                      badframes[k][1] = i =>
                          /\ Len(Rows(badframes[k][2])) = Cardinality(ClosePairs(FrameAt(i)))
                          /\ Len(Rows(badframes[k][3])) = Cardinality(OverLongBonds(FrameAt(i)))

\* C7: the overlap rows of a record are the unordered pairs of two distinct
\* group atoms within atomcut (a pair at exactly atomcut included), no
\* self-pair, each pair once, named by ix and carrying the pair's distance.
C7_OverlapsAreClosePairs ==
    atomcut # None =>
        \A r \in Records :
            InRun(r[1]) =>
                LET rows == Rows(r[2])
                    ts == FrameAt(r[1])
                IN  /\ \A k \in 1..Len(rows) :
                          /\ rows[k][1] # rows[k][2]
                          /\ {rows[k][1], rows[k][2]} \in ClosePairs(ts)
                          /\ rows[k][3] = BoxDistance(ts, rows[k][1], rows[k][2])
                    /\ \A pr \in ClosePairs(ts) :
                          Cardinality({k \in 1..Len(rows) : {rows[k][1], rows[k][2]} = pr}) = 1

\* C8: the bond rows of a record are the bonds inside the group longer than
\* bondcut, in bond-list order, with their two ix and their length; a bond of
\* length bondcut or with an atom outside the group is not among them.
C8_LongBondsAreOverLongBonds ==
    bondcut # None =>
        \A r \in Records :
            /\ InRun(r[1])
            /\ LET rows == Rows(r[3])
                   ts == FrameAt(r[1])
                   bonds == The(universe.bonds)
               IN  /\ Len(rows) = Cardinality(OverLongBonds(ts))
                   /\ \A k \in 1..Len(rows) :
                         \E m \in OverLongBonds(ts) :
                             /\ rows[k] = <<bonds[m][1], bonds[m][2], BondLength(ts, bonds[m])>>
                             /\ Cardinality({n \in OverLongBonds(ts) : n < m}) = k - 1

\* A record with one bond row whose universe has a second bond, inside the
\* group, of exactly the cutoff length.
C8_Witness ==
    /\ bondcut # None
    /\ \E r \in Records :
         /\ Len(Rows(r[3])) = 1
         /\ Len(The(universe.bonds)) = 2
         /\ \E m \in 1..2 :
              /\ The(universe.bonds)[m][1] \in GroupAtoms(FrameAt(r[1]))
              /\ The(universe.bonds)[m][2] \in GroupAtoms(FrameAt(r[1]))
              /\ BondLength(FrameAt(r[1]), The(universe.bonds)[m]) = The(bondcut)

\* C9: processing a frame keeps the earlier records in place, leaves the
\* sequence unchanged when the frame has no violation and appends exactly one
\* record when it has one.
C9_AppendOnly ==
    [][pc = "running"
        => /\ Len(badframes') >= Len(badframes)
           /\ SubSeq(badframes', 1, Len(badframes)) = badframes
           /\ ~HasViolation(CurrentTs) => badframes' = badframes
           /\ HasViolation(CurrentTs) => Len(badframes') = Len(badframes) + 1]_vars

\* The records one run leaves after its first n frames: for each frame, in
\* order, the frame's results if one of them is non-null.
RecordsOfRun(n) ==
    SelectSeq([i \in 1..n |-> <<i - 1, Overlaps(FrameAt(i - 1)), LongBonds(FrameAt(i - 1))>>],
              LAMBDA r : r[2] # None \/ r[3] # None)

\* C10: _prepare empties results.badframes at the start of every run, so
\* the records are those of the current run alone, however many runs came
\* before and whatever they left.
C10_PrepareResets ==
    /\ (pc = "running" /\ frame_index = 0) => badframes = <<>>
    /\ pc \in {"running", "done", "crashed"} => badframes = RecordsOfRun(frame_index)

\* A second run that ended with records and started at another frame than
\* the trajectory's first.
C10_Witness ==
    /\ pc = "done"
    /\ runs = 2
    /\ start > 0
    /\ badframes # <<>>
====
